---- MODULE Spec2Model ----
(***************************************************************************)
(* Model of the Zabbix chat assistant: the turn handled by                 *)
(* ZabbixAssistant.interact / chatbot_agent (modules/zabbix_assistant.py), *)
(* the conversation trimming, the tool catalog of initialize_zabbix_tools  *)
(* and ZabbixDataHandler.paginate_response (modules/zabbix_tools.py).      *)
(*                                                                         *)
(* Further parts: the texts the capabilities return (CapSpec), the         *)
(* parameter extraction from the query (ExtractSpec), the turns as the     *)
(* Streamlit script streamlit_app.py drives them (AppSpec), and the turns  *)
(* with the progress the code ensures (LiveSpec).                          *)
(*                                                                         *)
(* Texts are kept in the state as strings; where the code looks inside a   *)
(* text (str.lower, the "in" operator) the model works on its sequence of  *)
(* characters, given by the table Text.                                    *)
(***************************************************************************)
EXTENDS Integers, Sequences, FiniteSets, TLC

\* ------------------------------------------------------------------------
\* Bounds of the model
\* ------------------------------------------------------------------------
\* number of user turns on the thread
MaxTurns == 3
\* longest conversation handed to _trim_conversation_messages in TrimSpec
MaxConv == 7
\* longest record list handed to paginate_response in PagSpec
MaxRecords == 4
\* largest page number and page size (in absolute value) tried in PagSpec
MaxPageArg == 5
\* largest limit given to a capability
MaxLimit == 3
\* number of pieces a query text of ExtractSpec is put together from
MaxPieces == 4

\* ------------------------------------------------------------------------
\* Program constants
\* ------------------------------------------------------------------------
\* _trim_conversation_messages(..., max_tokens: int = 3000)
max_tokens == 3000
\* return list(messages)[-5:]
FallbackTail == 5

Text ==
  "list hosts" :> <<"l","i","s","t"," ","h","o","s","t","s">>
  @@ "show me 5 triggers with high severity" :> <<"s","h","o","w"," ","m","e"," ","5"," ","t","r","i","g","g","e","r","s"," ","w","i","t","h"," ","h","i","g","h"," ","s","e","v","e","r","i","t","y">>
  @@ "explain this zabbix_server.conf ..." :> <<"e","x","p","l","a","i","n"," ","t","h","i","s"," ","z","a","b","b","i","x","_","s","e","r","v","e","r",".","c","o","n","f"," ",".",".",".">>
  @@ "analyse this log dump ..." :> <<"a","n","a","l","y","s","e"," ","t","h","i","s"," ","l","o","g"," ","d","u","m","p"," ",".",".",".">>
  @@ "disaster triggers" :> <<"d","i","s","a","s","t","e","r"," ","t","r","i","g","g","e","r","s">>
  @@ "GENERAL" :> <<"G","E","N","E","R","A","L">>
  @@ "Get Hosts" :> <<"G","e","t"," ","H","o","s","t","s">>
  @@ "get hosts limit" :> <<"g","e","t"," ","h","o","s","t","s"," ","l","i","m","i","t">>
  @@ "Get Triggers" :> <<"G","e","t"," ","T","r","i","g","g","e","r","s">>
  @@ "Get Triggers is the best match" :> <<"G","e","t"," ","T","r","i","g","g","e","r","s"," ","i","s"," ","t","h","e"," ","b","e","s","t"," ","m","a","t","c","h">>
  @@ "Get Items or Get Hosts" :> <<"G","e","t"," ","I","t","e","m","s"," ","o","r"," ","G","e","t"," ","H","o","s","t","s">>
  @@ "GET USERS" :> <<"G","E","T"," ","U","S","E","R","S">>
  @@ "I am not sure" :> <<"I"," ","a","m"," ","n","o","t"," ","s","u","r","e">>
  @@ "All monitored hosts are healthy." :> <<"A","l","l"," ","m","o","n","i","t","o","r","e","d"," ","h","o","s","t","s"," ","a","r","e"," ","h","e","a","l","t","h","y",".">>
  @@ "The data could not be fetched: Error retrieving data." :> <<"T","h","e"," ","d","a","t","a"," ","c","o","u","l","d"," ","n","o","t"," ","b","e"," ","f","e","t","c","h","e","d",":"," ","E","r","r","o","r"," ","r","e","t","r","i","e","v","i","n","g"," ","d","a","t","a",".">>
  @@ "Hello! Ask me about Zabbix." :> <<"H","e","l","l","o","!"," ","A","s","k"," ","m","e"," ","a","b","o","u","t"," ","Z","a","b","b","i","x",".">>
  @@ "I encountered an unexpected error processing your request." :> <<"I"," ","e","n","c","o","u","n","t","e","r","e","d"," ","a","n"," ","u","n","e","x","p","e","c","t","e","d"," ","e","r","r","o","r"," ","p","r","o","c","e","s","s","i","n","g"," ","y","o","u","r"," ","r","e","q","u","e","s","t",".">>
  @@ "An error occurred: list index out of range" :> <<"A","n"," ","e","r","r","o","r"," ","o","c","c","u","r","r","e","d",":"," ","l","i","s","t"," ","i","n","d","e","x"," ","o","u","t"," ","o","f"," ","r","a","n","g","e">>
  @@ "Error retrieving" :> <<"E","r","r","o","r"," ","r","e","t","r","i","e","v","i","n","g">>

\* ------------------------------------------------------------------------
\* Python string and list primitives
\* ------------------------------------------------------------------------
UpperChars ==
  <<"A","B","C","D","E","F","G","H","I","J","K","L","M","N","O","P","Q","R","S","T","U","V","W","X","Y","Z">>
LowerChars ==
  <<"a","b","c","d","e","f","g","h","i","j","k","l","m","n","o","p","q","r","s","t","u","v","w","x","y","z">>

\* str.lower() on one character
LowerChar(c) ==
  IF \E i \in 1..Len(UpperChars) : UpperChars[i] = c
  THEN LowerChars[CHOOSE i \in 1..Len(UpperChars) : UpperChars[i] = c]
  ELSE c

\* str.lower()
lower(s) == [i \in 1..Len(s) |-> LowerChar(s[i])]

\* a in b, for strings
IsSubstring(a, b) ==
  \E i \in 0..(Len(b) - Len(a)) : SubSeq(b, i + 1, i + Len(a)) = a

\* s[start:end] for a list, with Python's treatment of negative and
\* out-of-range indices
SliceIndex(i, n) ==
  IF i < 0 THEN (IF i + n < 0 THEN 0 ELSE i + n)
  ELSE (IF i > n THEN n ELSE i)

PySlice(s, start, end) ==
  LET a == SliceIndex(start, Len(s))
      b == SliceIndex(end, Len(s))
  IN  IF a < b THEN SubSeq(s, a + 1, b) ELSE <<>>

\* s[-k:]
Tail_k(s, k) == PySlice(s, 0 - k, Len(s))

\* ------------------------------------------------------------------------
\* Conversation state and trimming
\* ------------------------------------------------------------------------
\* A message is [role, content, tokens]; tokens is what the token counter
\* of the language model (token_counter=self.llm) counts for it.
HumanMessage(content, tokens) ==
  [role |-> "human", content |-> content, tokens |-> tokens]
AIMessage(content, tokens) ==
  [role |-> "ai", content |-> content, tokens |-> tokens]

Reverse(s) == [i \in 1..Len(s) |-> s[Len(s) + 1 - i]]

\* token_counter(messages): the count of a list is the sum over its messages
RECURSIVE token_counter(_)
token_counter(messages) ==
  IF messages = <<>> THEN 0
  ELSE messages[1].tokens + token_counter(Tail(messages))

\* first_max_tokens without the budget test
first_max_tokens_no_budget(messages, end_on) ==
  LET ends == {k \in 1..Len(messages) : messages[k].role = end_on}
      idx  == IF ends = {} THEN 0
              ELSE CHOOSE k \in ends : \A j \in ends : j <= k
  IN  SubSeq(messages, 1, idx)

\* trim_messages, strategy "first" on the given list: the longest prefix
\* within the budget, then cut back until it ends on a message of type
\* end_on (allow_partial=False: no message is split)
first_max_tokens(messages, end_on) ==
  LET fits == {k \in 1..Len(messages) :
                 token_counter(SubSeq(messages, 1, k)) <= max_tokens}
      idx0 == IF fits = {} THEN 0
              ELSE CHOOSE k \in fits : \A j \in fits : j <= k
      ends == {k \in 1..idx0 : messages[k].role = end_on}
      idx  == IF ends = {} THEN 0
              ELSE CHOOSE k \in ends : \A j \in ends : j <= k
  IN  SubSeq(messages, 1, idx)

\* trim_messages with strategy "first": the list is not reversed, so the
\* oldest messages are the ones kept
trim_messages_first(messages) ==
  first_max_tokens(messages, "human")

\* trim_messages(strategy="last", include_system=True, allow_partial=False,
\* start_on="human"): the list is reversed (a leading system message stays
\* in front), trimmed from the front, and reversed back
trim_messages(messages) ==
  IF messages = <<>> THEN <<>>
  ELSE
    LET swapped_system == messages[1].role = "system"
        reversed_ == IF swapped_system
                     THEN <<messages[1]>> \o Reverse(Tail(messages))
                     ELSE Reverse(messages)
        kept == first_max_tokens(reversed_, "human")
    IN  IF swapped_system
        THEN (IF kept = <<>> THEN <<>>
              ELSE <<kept[1]>> \o Reverse(Tail(kept)))
        ELSE Reverse(kept)

\* _trim_conversation_messages with a fallback tail one message short
_trim_conversation_messages_short_tail(messages, counter_raises) ==
  IF counter_raises THEN Tail_k(messages, FallbackTail - 1)
  ELSE trim_messages(messages)

\* ZabbixAssistant._trim_conversation_messages: the budget-aware window, or
\* the last FallbackTail messages when the token counter raises
_trim_conversation_messages(messages, counter_raises) ==
  IF counter_raises THEN Tail_k(messages, FallbackTail)
  ELSE trim_messages(messages)

zabbix_tools_catalog ==
  <<
    [name |-> <<"G","e","t"," ","H","o","s","t","s">>,
     func |-> "get_hosts"],
    [name |-> <<"G","e","t"," ","H","o","s","t","s"," ","L","i","m","i","t">>,
     func |-> "get_hosts_limit"],
    [name |-> <<"G","e","t"," ","I","t","e","m","s">>,
     func |-> "get_items"],
    [name |-> <<"G","e","t"," ","T","r","i","g","g","e","r","s">>,
     func |-> "get_triggers"],
    [name |-> <<"G","e","t"," ","E","v","e","n","t","s">>,
     func |-> "get_events"],
    [name |-> <<"G","e","t"," ","H","o","s","t"," ","S","t","a","t","u","s">>,
     func |-> "get_host_status"],
    [name |-> <<"G","e","t"," ","I","t","e","m"," ","V","a","l","u","e","s">>,
     func |-> "get_item_values"],
    [name |-> <<"G","e","t"," ","H","o","s","t"," ","I","n","v","e","n","t","o","r","y">>,
     func |-> "get_host_inventory"],
    [name |-> <<"G","e","t"," ","H","o","s","t"," ","A","l","e","r","t","s">>,
     func |-> "get_host_alerts"],
    [name |-> <<"G","e","t"," ","A","p","p","l","i","c","a","t","i","o","n"," ","I","t","e","m","s">>,
     func |-> "get_application_items"],
    [name |-> <<"G","e","t"," ","I","t","e","m"," ","b","y"," ","K","e","y">>,
     func |-> "get_item_by_key"],
    [name |-> <<"G","e","t"," ","E","v","e","n","t"," ","H","i","s","t","o","r","y">>,
     func |-> "get_event_history"],
    [name |-> <<"G","e","t"," ","A","l","e","r","t"," ","H","i","s","t","o","r","y">>,
     func |-> "get_alert_history"],
    [name |-> <<"G","e","t"," ","S","y","s","t","e","m"," ","P","e","r","f","o","r","m","a","n","c","e">>,
     func |-> "get_system_performance"],
    [name |-> <<"G","e","t"," ","T","r","i","g","g","e","r"," ","P","e","r","f","o","r","m","a","n","c","e">>,
     func |-> "get_trigger_performance"],
    [name |-> <<"G","e","t"," ","G","r","a","p","h"," ","D","a","t","a">>,
     func |-> "get_graph_data"],
    [name |-> <<"G","e","t"," ","T","r","e","n","d"," ","D","a","t","a">>,
     func |-> "get_trend_data"],
    [name |-> <<"G","e","t"," ","M","e","t","r","i","c","s"," ","b","y"," ","H","o","s","t">>,
     func |-> "get_metrics_by_host"],
    [name |-> <<"G","e","t"," ","Z","a","b","b","i","x"," ","P","e","r","f","o","r","m","a","n","c","e"," ","D","a","t","a">>,
     func |-> "get_zabbix_performance_data"],
    [name |-> <<"G","e","t"," ","D","B"," ","P","e","r","f","o","r","m","a","n","c","e">>,
     func |-> "get_db_performance"],
    [name |-> <<"G","e","t"," ","N","e","t","w","o","r","k"," ","P","e","r","f","o","r","m","a","n","c","e">>,
     func |-> "get_network_performance"],
    [name |-> <<"G","e","t"," ","P","r","o","x","y"," ","P","e","r","f","o","r","m","a","n","c","e">>,
     func |-> "get_proxy_performance"],
    [name |-> <<"G","e","t"," ","S","L","A"," ","D","a","t","a">>,
     func |-> "get_sla_data"],
    [name |-> <<"G","e","t"," ","U","s","e","r","s">>,
     func |-> "get_users"],
    [name |-> <<"G","e","t"," ","U","s","e","r"," ","G","r","o","u","p","s">>,
     func |-> "get_user_groups"],
    [name |-> <<"G","e","t"," ","U","s","e","r"," ","R","o","l","e","s">>,
     func |-> "get_user_roles"],
    [name |-> <<"G","e","t"," ","C","u","s","t","o","m"," ","I","t","e","m">>,
     func |-> "get_custom_item"],
    [name |-> <<"G","e","t"," ","I","t","e","m","s"," ","b","y"," ","H","o","s","t"," ","G","r","o","u","p">>,
     func |-> "get_items_by_host_group"],
    [name |-> <<"G","e","t"," ","H","o","s","t"," ","b","y"," ","N","a","m","e">>,
     func |-> "get_host_by_name"],
    [name |-> <<"G","e","t"," ","T","r","i","g","g","e","r"," ","b","y"," ","E","x","p","r","e","s","s","i","o","n">>,
     func |-> "get_trigger_by_expression"],
    [name |-> <<"G","e","t"," ","D","e","p","e","n","d","e","n","c","i","e","s"," ","b","y"," ","T","r","i","g","g","e","r">>,
     func |-> "get_dependencies_by_trigger"],
    [name |-> <<"G","e","t"," ","S","c","r","e","e","n","s">>,
     func |-> "get_screens"],
    [name |-> <<"G","e","t"," ","G","r","a","p","h","s"," ","b","y"," ","H","o","s","t">>,
     func |-> "get_graphs_by_host"],
    [name |-> <<"G","e","t"," ","Z","a","b","b","i","x"," ","A","P","I"," ","L","i","m","i","t","s">>,
     func |-> "get_zabbix_api_limits"],
    [name |-> <<"G","e","t"," ","S","c","h","e","d","u","l","e","d"," ","T","a","s","k","s">>,
     func |-> "get_scheduled_tasks"],
    [name |-> <<"G","e","t"," ","H","o","s","t"," ","M","a","i","n","t","e","n","a","n","c","e">>,
     func |-> "get_host_maintenance"],
    [name |-> <<"G","e","t"," ","M","a","i","n","t","e","n","a","n","c","e"," ","P","e","r","i","o","d","s">>,
     func |-> "get_maintenance_periods"],
    [name |-> <<"G","e","t"," ","A","u","t","o","m","a","t","e","d"," ","T","a","s","k","s">>,
     func |-> "get_automated_tasks"],
    [name |-> <<"G","e","t"," ","Z","a","b","b","i","x"," ","T","a","s","k"," ","S","t","a","t","u","s">>,
     func |-> "get_zabbix_task_status"],
    [name |-> <<"G","e","t"," ","N","o","t","i","f","i","c","a","t","i","o","n"," ","S","e","t","t","i","n","g","s">>,
     func |-> "get_notification_settings"],
    [name |-> <<"G","e","t"," ","S","y","s","t","e","m"," ","P","e","r","f","o","r","m","a","n","c","e">>,
     func |-> "get_zabbix_status"]
  >>

\* ------------------------------------------------------------------------
\* Tool selection
\* ------------------------------------------------------------------------
tools == zabbix_tools_catalog

\* ZabbixAssistant._match_tools: the indices, in catalog order, of the tools
\* whose lower-cased name occurs in the lower-cased classifier response
RECURSIVE match_from(_, _)
match_from(i, selection) ==
  IF i > Len(tools) THEN <<>>
  ELSE (IF IsSubstring(lower(tools[i].name), lower(selection))
        THEN <<i>> ELSE <<>>) \o match_from(i + 1, selection)

\* _match_tools comparing without str.lower()
RECURSIVE match_from_case_sensitive(_, _)
match_from_case_sensitive(i, selection) ==
  IF i > Len(tools) THEN <<>>
  ELSE (IF IsSubstring(tools[i].name, selection)
        THEN <<i>> ELSE <<>>) \o match_from_case_sensitive(i + 1, selection)

MatchTableCaseSensitive ==
  [t \in DOMAIN Text |-> match_from_case_sensitive(1, Text[t])]

_match_tools_case_sensitive(selection) == MatchTableCaseSensitive[selection]

\* the matches of every text of the model, computed once
MatchTable == [t \in DOMAIN Text |-> match_from(1, Text[t])]

_match_tools(selection) == MatchTable[selection]

\* ------------------------------------------------------------------------
\* Pagination
\* ------------------------------------------------------------------------
\* Python's a // b (floor division) for b # 0
FloorDiv(a, b) == IF b > 0 THEN a \div b ELSE (0 - a) \div (0 - b)

\* total_pages rounding down
total_pages_floor(total_items, size) == FloorDiv(total_items, size)

\* total_pages = (total_items + page_size - 1) // page_size
total_pages(total_items, size) == FloorDiv(total_items + size - 1, size)

\* start_index one page early
start_index_early(page_no, size) == (page_no - 2) * size

\* start_index = (page - 1) * page_size
start_index(page_no, size) == (page_no - 1) * size

\* end_index = start_index + page_size
end_index(page_no, size) == start_index(page_no, size) + size

\* ZabbixDataHandler.paginate_response. content is the slice of records the
\* formatter renders, one after the other; a page size of 0 makes the
\* division raise.
paginate_response(records, page_no, size) ==
  IF size = 0
  THEN [raised |-> "ZeroDivisionError", content |-> <<>>,
        total_items |-> Len(records), total_pages |-> 0,
        current_page |-> page_no, page_size |-> size]
  ELSE [raised |-> "none",
        content |-> PySlice(records, start_index(page_no, size),
                            end_index(page_no, size)),
        total_items |-> Len(records),
        total_pages |-> total_pages(Len(records), size),
        current_page |-> page_no, page_size |-> size]

\* ------------------------------------------------------------------------
\* Tool execution
\* ------------------------------------------------------------------------
\* wrappers of initialize_zabbix_tools that declare a parameter without a
\* default; _run_tool calls them as matched_tool.func()
RequiresArguments ==
  {"get_item_by_key", "get_graph_data", "get_trend_data",
   "get_metrics_by_host", "get_sla_data", "get_custom_item",
   "get_items_by_host_group", "get_host_by_name",
   "get_trigger_by_expression", "get_dependencies_by_trigger",
   "get_graphs_by_host", "get_host_maintenance", "get_zabbix_task_status"}

\* wrappers that call a method ZabbixToolFunctions does not define
MissingMethods == {"get_hosts_limit", "get_item_by_key", "get_event_history"}

\* wrappers that pass a keyword the method does not accept:
\* get_triggers passes limit= to ZabbixToolFunctions.get_triggers(page,
\* page_size, severity_filter)
UnknownKeyword == {"get_triggers"}

\* the call of the wrapper raises before any try block is entered
WrapperRaises(func) ==
  func \in RequiresArguments \cup MissingMethods \cup UnknownKeyword

\* ZabbixAssistant._run_tool on the tool at index i of the catalog. api_ok
\* is the outcome of the monitoring API call inside the method's try block:
\* on failure the method returns its "Error retrieving ..." text.
_run_tool(i, query, api_ok) ==
  IF WrapperRaises(tools[i].func)
  THEN [raised |-> TRUE, kind |-> "none", func |-> tools[i].func]
  ELSE [raised |-> FALSE,
        kind   |-> IF api_ok THEN "data" ELSE "error_text",
        func   |-> tools[i].func]

NoResponse == [raised |-> FALSE, kind |-> "none", func |-> ""]

\* ------------------------------------------------------------------------
\* Parameter extraction
\* ------------------------------------------------------------------------
\* None; an integer n is <<n>> and a list keeps its elements
None == <<>>

\* the characters \d and \s match
Digits == {"0", "1", "2", "3", "4", "5", "6", "7", "8", "9"}

Whitespace == {" ", "\t", "\n"}

\* hosts?|triggers?|items? : the optional s never decides whether the
\* pattern matches
Nouns ==
  {<<"h","o","s","t">>, <<"t","r","i","g","g","e","r">>,
   <<"i","t","e","m">>}

\* the characters of q from position i on begin with w
StartsWith(q, i, w) ==
  /\ i + Len(w) - 1 <= Len(q)
  /\ SubSeq(q, i, i + Len(w) - 1) = w

\* \s*(hosts?|triggers?|items?) matches at position i
RestMatches(q, i) ==
  \E k \in i..Len(q) :
    /\ \A x \in i..(k - 1) : q[x] \in Whitespace
    /\ \E w \in Nouns : StartsWith(q, k, w)

\* ends j of group 1 for a match that starts at i: q[i..j] are digits and
\* the rest of the pattern matches after j
GroupEnds(q, i) ==
  {j \in i..Len(q) :
     /\ \A x \in i..j : q[x] \in Digits
     /\ RestMatches(q, j + 1)}

\* positions where a match can start
MatchStarts(q) == {i \in 1..Len(q) : GroupEnds(q, i) # {}}

Least(S) == CHOOSE x \in S : \A y \in S : x <= y

Greatest(S) == CHOOSE x \in S : \A y \in S : x >= y

\* the span of group 1 under a search that keeps the last start
re_search_last_start(q) ==
  IF MatchStarts(q) = {} THEN None
  ELSE LET i == Greatest(MatchStarts(q))
       IN  <<i, Greatest(GroupEnds(q, i))>>

\* re.search(r'(\d+)\s*(hosts?|triggers?|items?)', q): the leftmost start,
\* the greedy \d+ keeps the longest group; gives the span of group 1
re_search(q) ==
  IF MatchStarts(q) = {} THEN None
  ELSE LET i == Least(MatchStarts(q))
       IN  <<i, Greatest(GroupEnds(q, i))>>

DigitValue(c) ==
  CASE c = "0" -> 0 [] c = "1" -> 1 [] c = "2" -> 2 [] c = "3" -> 3
    [] c = "4" -> 4 [] c = "5" -> 5 [] c = "6" -> 6 [] c = "7" -> 7
    [] c = "8" -> 8 [] c = "9" -> 9

\* int(digits)
RECURSIVE int(_)
int(digits) ==
  IF digits = <<>> THEN 0
  ELSE 10 * int(SubSeq(digits, 1, Len(digits) - 1))
         + DigitValue(digits[Len(digits)])

\* ZabbixAssistant._extract_limit; None or <<n>>
_extract_limit(query) ==
  LET q == lower(query)
      limit_match == re_search(q)
  IN  IF limit_match = None THEN None
      ELSE <<int(SubSeq(q, limit_match[1], limit_match[2]))>>

\* severity_map of _extract_severity, in the order of its declaration
severity_map ==
  <<[severity |-> <<"n","o","t"," ","c","l","a","s","s","i","f","i","e","d">>,
     mapped_severity |-> "not_classified"],
    [severity |-> <<"i","n","f","o","r","m","a","t","i","o","n">>,
     mapped_severity |-> "information"],
    [severity |-> <<"w","a","r","n","i","n","g">>,
     mapped_severity |-> "warning"],
    [severity |-> <<"a","v","e","r","a","g","e">>,
     mapped_severity |-> "average"],
    [severity |-> <<"h","i","g","h">>,
     mapped_severity |-> "high"],
    [severity |-> <<"d","i","s","a","s","t","e","r">>,
     mapped_severity |-> "disaster"]>>

\* first position at which w occurs in q
FirstOccurrence(q, w) ==
  Least({i \in 1..Len(q) : StartsWith(q, i, w)})

\* an extraction that keeps the entry standing first in the query
_extract_severity_by_position(query) ==
  LET q == lower(query)
      found == {k \in 1..Len(severity_map) :
                  IsSubstring(severity_map[k].severity, q)}
  IN  IF found = {} THEN None
      ELSE <<severity_map[
               CHOOSE k \in found : \A m \in found :
                 FirstOccurrence(q, severity_map[k].severity)
                   <= FirstOccurrence(q, severity_map[m].severity)
             ].mapped_severity>>

\* ZabbixAssistant._extract_severity; None or a one-element list
_extract_severity(query) ==
  LET q == lower(query)
      found == {k \in 1..Len(severity_map) :
                  IsSubstring(severity_map[k].severity, q)}
  IN  IF found = {} THEN None
      ELSE <<severity_map[Least(found)].mapped_severity>>

\* the severity names as characters
SeverityNames ==
  [n \in {severity_map[k].mapped_severity : k \in 1..Len(severity_map)} |->
     LET k == CHOOSE k \in 1..Len(severity_map) :
                severity_map[k].mapped_severity = n
     IN  [i \in 1..Len(severity_map[k].severity) |->
            IF severity_map[k].severity[i] = " " THEN "_"
            ELSE severity_map[k].severity[i]]]

\* sev.lower() for a severity name
lower_name(sev) ==
  IF \E n \in DOMAIN SeverityNames : SeverityNames[n] = lower(SeverityNames[sev])
  THEN CHOOSE n \in DOMAIN SeverityNames :
         SeverityNames[n] = lower(SeverityNames[sev])
  ELSE sev

\* a severity_map of get_triggers that counts the priorities from 1
trigger_severity_map_from_one ==
  [not_classified |-> 1, information |-> 2, warning |-> 3, average |-> 4,
   high |-> 5, disaster |-> 6]

\* severity_map of ZabbixToolFunctions.get_triggers
trigger_severity_map ==
  [not_classified |-> 0, information |-> 1, warning |-> 2, average |-> 3,
   high |-> 4, disaster |-> 5]

\* severity_map.get(sev.lower(), sev): the priority, or sev itself
translated(sev) ==
  IF lower_name(sev) \in DOMAIN trigger_severity_map
  THEN [kind |-> "int", value |-> trigger_severity_map[lower_name(sev)]]
  ELSE [kind |-> "str", value |-> sev]

\* trigger_params["filter"]["priority"] of get_triggers; None when
\* severity_filter is None or empty and no filter is set
priority_filter(severity_filter) ==
  IF severity_filter = None THEN None
  ELSE [i \in 1..Len(severity_filter) |-> translated(severity_filter[i])]

\* ------------------------------------------------------------------------
\* Texts returned by the capabilities
\* ------------------------------------------------------------------------
\* A returned text is a sequence of pieces: the literal parts of the
\* f-strings and the rendered values between them.

\* default of the page_size parameters, and of "limit or 50"
default_page_size == 50

\* separator.join(parts)
RECURSIVE join(_, _)
join(separator, parts) ==
  IF parts = <<>> THEN <<>>
  ELSE IF Len(parts) = 1 THEN <<parts[1]>>
  ELSE <<parts[1], separator>> \o join(separator, Tail(parts))

\* the per-record rendering of the formatters
formatter(records, separator) ==
  join(separator, [i \in 1..Len(records) |-> ToString(records[i])])

\* the footer appended by _paginate_and_format
Footer(result) ==
  <<"\n\nPage ", ToString(result.current_page), " of ",
    ToString(result.total_pages), " (Total Items: ",
    ToString(result.total_items), ")">>

\* ZabbixToolFunctions._paginate_and_format
_paginate_and_format(records, page_no, size) ==
  LET result == paginate_response(records, page_no, size)
  IN  IF result.raised # "none"
      THEN [raised |-> result.raised, text |-> <<>>]
      ELSE [raised |-> "none",
            text   |-> formatter(result.content, "\n\n") \o Footer(result)]

\* methods of ZabbixToolFunctions that return through _paginate_and_format
PaginatedMethods ==
  {"get_hosts", "get_triggers", "get_host_status", "get_events",
   "get_item_values", "get_host_inventory", "get_host_alerts",
   "get_application_items"}

\* methods that answer an empty result with a "No ... found" sentence
EmptyNotice ==
  {"get_items", "get_zabbix_performance_data", "get_db_performance",
   "get_network_performance", "get_proxy_performance", "get_users",
   "get_user_groups", "get_user_roles", "get_screens",
   "get_scheduled_tasks", "get_maintenance_periods",
   "get_automated_tasks", "get_notification_settings"}

\* the text of the except branch of a method
ErrorText(func) ==
  IF func = "get_zabbix_status"
  THEN <<"Error retrieving Zabbix status.">>
  ELSE <<"Error retrieving ", func, ": ", "cause">>

\* the body of a method of ZabbixToolFunctions, inside its try block;
\* api is the outcome of the monitoring API call
MethodText(func, size, api) ==
  IF ~api.ok THEN ErrorText(func)
  ELSE IF func \in PaginatedMethods
  THEN LET r == _paginate_and_format(api.records, 1, size)
       IN  IF r.raised # "none" THEN ErrorText(func) ELSE r.text
  ELSE IF func \in EmptyNotice /\ api.records = <<>>
  THEN <<"No ", func, " found.">>
  ELSE IF func = "get_items"
  THEN formatter(api.records, "\n")
  ELSE IF func = "get_alert_history"
  THEN formatter(api.records, "\n\n")
         \o <<"\n\nRetrieved ", ToString(Len(api.records)), " alerts">>
  ELSE <<func, ":\n">> \o formatter(api.records, "\n")

\* the limit passed on as it is, 50 only for None
limit_unless_none(limit) ==
  IF limit = None THEN default_page_size ELSE limit[1]

\* limit or 50
limit_or_default(limit) ==
  IF limit = None \/ limit[1] = 0 THEN default_page_size ELSE limit[1]

\* the call of a wrapper of initialize_zabbix_tools as _run_tool makes it
wrapper(func, limit, severity, api) ==
  IF WrapperRaises(func)
  THEN [raised |-> TRUE, text |-> <<>>]
  ELSE [raised |-> FALSE,
        text   |-> MethodText(func,
                              IF func = "get_hosts"
                              THEN limit_or_default(limit)
                              ELSE default_page_size,
                              api)]

\* ------------------------------------------------------------------------
\* Inputs of a turn
\* ------------------------------------------------------------------------
\* texts typed by the user, with their token counts
UserInputs ==
  {[content |-> "list hosts", tokens |-> 4],
   [content |-> "disaster triggers", tokens |-> 3],
   [content |-> "explain this zabbix_server.conf ...", tokens |-> 2500],
   [content |-> "analyse this log dump ...", tokens |-> 3500]}

\* texts the language model answers to the tool selection prompt
ClassifierResponses ==
  {"GENERAL", "Get Hosts", "get hosts limit", "Get Triggers",
   "Get Triggers is the best match", "Get Items or Get Hosts",
   "GET USERS", "I am not sure"}

\* texts the language model answers to the interpretation prompt
Narratives ==
  {[content |-> "All monitored hosts are healthy.", tokens |-> 250],
   [content |-> "The data could not be fetched: Error retrieving data.",
    tokens |-> 12]}

\* texts the language model answers on the generic path
Completions ==
  {[content |-> "Hello! Ask me about Zabbix.", tokens |-> 250]}

\* values of temperature, top_p and max_length the sliders pass to interact
GenerationSettings ==
  {[temperature |-> "0.7", top_p |-> "1.0", max_length |-> "300"],
   [temperature |-> "0.2", top_p |-> "0.9", max_length |-> "1000"]}

\* what load_selected_model can return: a model name, or None
SelectedModels == {"None", "gpt-4o"}

\* ZabbixAssistant._initialize_llm: the client built for the selected model,
\* or for the fallback model when none is selected
_initialize_llm(model) ==
  [model_name  |-> IF model = "None" THEN "gpt-3.5-turbo" ELSE model,
   temperature |-> "0.7",
   top_p       |-> "None",
   max_tokens  |-> "None"]

UNEXPECTED_ERROR ==
  [content |-> "I encountered an unexpected error processing your request.",
   tokens |-> 11]

\* ------------------------------------------------------------------------
\* State
\* ------------------------------------------------------------------------
VARIABLES
  selected_model,    \* self.selected_model
  llm,               \* settings of self.llm
  thread,            \* state["messages"] kept by the MemorySaver checkpointer
  pc,                \* position of the turn
  turns,             \* number of turns started
  trimmed_messages,  \* window of the running turn
  counter_failed,    \* the token counter raised in this turn
  user_query,        \* trimmed_messages[-1].content
  tool_selection,    \* answer of the tool selection call
  matched_tools,     \* _match_tools(tool_selection)
  tool_response,     \* result of _run_tool
  calls,             \* catalog indices of the tools invoked in this turn
  caught,            \* step whose exception chatbot_agent caught
  escaped,           \* exception that left chatbot_agent
  returned,          \* text returned by interact
  session_messages,  \* st.session_state.messages of handle_chat_input
  conv,              \* TrimSpec: messages given to _trim_conversation_messages
  counter_raises_in, \* TrimSpec: the token counter raises
  trim_result,       \* TrimSpec: the window returned
  trim_pc,           \* TrimSpec: "idle", "ready" or "done"
  data,              \* PagSpec: records given to paginate_response
  page,              \* PagSpec: page argument
  page_size,         \* PagSpec: page_size argument
  pag_result,        \* PagSpec: the dictionary returned
  pag_pc,            \* PagSpec: "idle", "ready" or "done"
  cap_tool,          \* CapSpec: catalog index of the tool _run_tool calls
  cap_limit,         \* CapSpec: limit argument, None or <<n>>
  cap_severity,      \* CapSpec: severity argument, None or a list
  cap_api,           \* CapSpec: outcome of the monitoring API call
  cap_result,        \* CapSpec: what the call of the wrapper gives
  cap_pc,            \* CapSpec: "idle", "ready" or "done"
  ext_query,         \* ExtractSpec: characters of the query text
  ext_limit,         \* ExtractSpec: result of _extract_limit
  ext_severity,      \* ExtractSpec: result of _extract_severity
  ext_priority,      \* ExtractSpec: trigger_params["filter"]["priority"]
  ext_pc,            \* ExtractSpec: "idle", "ready" or "done"
  sel_named,         \* SelectSpec: catalog index of the tool the answer names
  sel_response,      \* SelectSpec: characters of the classifier response
  sel_matched,       \* SelectSpec: _match_tools(response)
  sel_func,          \* SelectSpec: function _run_tool invokes, "" for none
  sel_pc,            \* SelectSpec: "idle", "ready" or "done"
  history_file,      \* UiSpec: chats stored in data/chat_history.csv
  history,           \* UiSpec: st.session_state.history
  current_chat_index, \* UiSpec: st.session_state.current_chat_index
  ui_messages,       \* UiSpec: st.session_state.messages
  shown_chat,        \* UiSpec: chat the shown messages belong to, 0: unsaved
  aliased,           \* UiSpec: ui_messages is the list object of that chat
  sends,             \* UiSpec: number of messages sent
  ui_raised,         \* UiSpec: exception that ended the last script run
  ui_pc              \* UiSpec: "idle", "start" or "ready"

turnVars ==
  <<selected_model, llm, thread, pc, turns, trimmed_messages, counter_failed, user_query,
    tool_selection, matched_tools, tool_response, calls, caught, escaped,
    returned, session_messages>>

trimVars == <<conv, counter_raises_in, trim_result, trim_pc>>

pagVars == <<data, page, page_size, pag_result, pag_pc>>

capVars ==
  <<cap_tool, cap_limit, cap_severity, cap_api, cap_result, cap_pc>>

extVars == <<ext_query, ext_limit, ext_severity, ext_priority, ext_pc>>

selVars == <<sel_named, sel_response, sel_matched, sel_func, sel_pc>>

uiVars ==
  <<history_file, history, current_chat_index, ui_messages, shown_chat,
    aliased, sends, ui_raised, ui_pc>>

vars == <<turnVars, trimVars, pagVars, capVars, extVars, selVars, uiVars>>

TurnLocalsInit ==
  /\ trimmed_messages = <<>>
  /\ counter_failed = FALSE
  /\ user_query = ""
  /\ tool_selection = ""
  /\ matched_tools = <<>>
  /\ tool_response = NoResponse
  /\ calls = <<>>
  /\ caught = "none"
  /\ escaped = "none"
  /\ returned = ""

TurnInit ==
  /\ selected_model \in SelectedModels
  /\ llm = _initialize_llm(selected_model)
  /\ thread = <<>>
  /\ pc = "AWAITING_INPUT"
  /\ turns = 0
  /\ session_messages = <<>>
  /\ TurnLocalsInit

\* the node returned {"messages": [AIMessage(...)]}: add_messages appends it
\* to the thread and interact returns its content
Commit(msg) ==
  /\ thread' = Append(thread, AIMessage(msg.content, msg.tokens))
  /\ returned' = msg.content
  /\ pc' = "DONE"

\* interact adding the payload to the thread before the test of the model
InteractNoModelKeepsPayload(input) ==
  /\ pc = "AWAITING_INPUT"
  /\ turns < MaxTurns
  /\ selected_model = "None"
  /\ turns' = turns + 1
  /\ returned' = "No model selected. Please choose a model."
  /\ pc' = "DONE"
  /\ thread' = Append(thread, HumanMessage(input.content, input.tokens))
  /\ UNCHANGED <<selected_model, llm, trimmed_messages, counter_failed,
                 user_query, tool_selection, matched_tools, tool_response,
                 calls, caught, escaped>>
  /\ session_messages' =
       Append(session_messages, [role |-> "user", content |-> input.content])
  /\ UNCHANGED <<trimVars, pagVars, capVars, extVars, selVars, uiVars>>

\* interact lines 308-312: no model is selected
InteractNoModel(input) ==
  /\ pc = "AWAITING_INPUT"
  /\ turns < MaxTurns
  /\ selected_model = "None"
  /\ turns' = turns + 1
  /\ returned' = "No model selected. Please choose a model."
  /\ pc' = "DONE"
  /\ UNCHANGED <<selected_model, llm, thread, trimmed_messages, counter_failed,
                 user_query, tool_selection, matched_tools, tool_response,
                 calls, caught, escaped>>
  /\ session_messages' =
       Append(session_messages, [role |-> "user", content |-> input.content])
  /\ UNCHANGED <<trimVars, pagVars, capVars, extVars, selVars, uiVars>>

\* interact (lines 306-329) up to chatbot_agent lines 114-115: the settings
\* of the language model are updated, the payload is added to the thread,
\* the window is trimmed and the query read from its last message, outside
\* the try block of chatbot_agent
Interact(input, settings, counter_raises) ==
  /\ pc = "AWAITING_INPUT"
  /\ turns < MaxTurns
  /\ selected_model # "None"
  /\ llm' = [model_name  |-> selected_model,
             temperature |-> settings.temperature,
             top_p       |-> settings.top_p,
             max_tokens  |-> settings.max_length]
  /\ LET messages == Append(thread, HumanMessage(input.content, input.tokens))
         window   == _trim_conversation_messages(messages, counter_raises)
     IN  /\ thread' = messages
         /\ turns' = turns + 1
         /\ trimmed_messages' = window
         /\ counter_failed' = counter_raises
         /\ IF window = <<>>
            THEN /\ escaped' = "IndexError"
                 /\ returned' = "An error occurred: list index out of range"
                 /\ pc' = "DONE"
                 /\ UNCHANGED user_query
            ELSE /\ user_query' = window[Len(window)].content
                 /\ pc' = "SELECTING_TOOL"
                 /\ UNCHANGED <<escaped, returned>>
  /\ UNCHANGED <<selected_model, tool_selection, matched_tools, tool_response,
                 calls, caught>>
  /\ session_messages' =
       Append(session_messages, [role |-> "user", content |-> input.content])
  /\ UNCHANGED <<trimVars, pagVars, capVars, extVars, selVars, uiVars>>

\* chatbot_agent lines 171-176: the tool selection call returns
SelectTool(selection) ==
  /\ pc = "SELECTING_TOOL"
  /\ tool_selection' = selection
  /\ matched_tools' = _match_tools(selection)
  /\ pc' = IF _match_tools(selection) # <<>>
           THEN "EXECUTING_TOOL" ELSE "GENERIC_RESPONSE"
  /\ UNCHANGED <<selected_model, llm, thread, turns, trimmed_messages,
                 counter_failed, user_query,
                 tool_response, calls, caught, escaped, returned>>
  /\ UNCHANGED <<session_messages, trimVars, pagVars, capVars, extVars, selVars, uiVars>>

\* chatbot_agent lines 171, 221-223: the tool selection call raises
SelectToolRaises ==
  /\ pc = "SELECTING_TOOL"
  /\ caught' = "selection"
  /\ Commit(UNEXPECTED_ERROR)
  /\ UNCHANGED <<selected_model, llm, turns, trimmed_messages, counter_failed,
                 user_query,
                 tool_selection, matched_tools, tool_response, calls, escaped>>
  /\ UNCHANGED <<session_messages, trimVars, pagVars, capVars, extVars, selVars, uiVars>>

\* chatbot_agent running every matched tool instead of the first
ExecuteToolEveryMatch(api_ok) ==
  /\ pc = "EXECUTING_TOOL"
  /\ calls' = calls \o matched_tools
  /\ tool_response' = _run_tool(matched_tools[Len(matched_tools)], user_query,
                                api_ok)
  /\ pc' = "SYNTHESIZING"
  /\ UNCHANGED <<session_messages, trimVars, pagVars, capVars, extVars, selVars, uiVars>>
  /\ UNCHANGED <<selected_model, llm, thread, turns, trimmed_messages,
                 counter_failed, user_query,
                 tool_selection, matched_tools, caught, escaped, returned>>

\* chatbot_agent line 178: the first matched tool is run
ExecuteTool(api_ok) ==
  /\ pc = "EXECUTING_TOOL"
  /\ LET response == _run_tool(matched_tools[1], user_query, api_ok)
     IN  /\ calls' = Append(calls, matched_tools[1])
         /\ tool_response' = response
         /\ IF response.raised
            THEN /\ caught' = "execution"
                 /\ Commit(UNEXPECTED_ERROR)
            ELSE /\ pc' = "SYNTHESIZING"
                 /\ UNCHANGED <<thread, caught, returned>>
  /\ UNCHANGED <<session_messages, trimVars, pagVars, capVars, extVars, selVars, uiVars>>
  /\ UNCHANGED <<selected_model, llm, turns, trimmed_messages, counter_failed,
                 user_query,
                 tool_selection, matched_tools, escaped>>

\* chatbot_agent lines 207-216: the interpretation chain returns
Synthesize(narrative) ==
  /\ pc = "SYNTHESIZING"
  /\ Commit(narrative)
  /\ UNCHANGED <<session_messages, trimVars, pagVars, capVars, extVars, selVars, uiVars>>
  /\ UNCHANGED <<selected_model, llm, turns, trimmed_messages, counter_failed,
                 user_query,
                 tool_selection, matched_tools, tool_response, calls, caught,
                 escaped>>

\* chatbot_agent without its except clause: the exception of the
\* interpretation chain leaves the node and interact reports it
SynthesizeRaisesUncaught ==
  /\ pc = "SYNTHESIZING"
  /\ caught' = "synthesis"
  /\ escaped' = "Exception"
  /\ returned' = "An error occurred: Connection error."
  /\ pc' = "DONE"
  /\ UNCHANGED <<session_messages, trimVars, pagVars, capVars, extVars, selVars, uiVars>>
  /\ UNCHANGED <<selected_model, llm, thread, turns, trimmed_messages,
                 counter_failed, user_query, tool_selection, matched_tools,
                 tool_response, calls>>

\* chatbot_agent lines 214, 221-223: the interpretation chain raises
SynthesizeRaises ==
  /\ pc = "SYNTHESIZING"
  /\ caught' = "synthesis"
  /\ Commit(UNEXPECTED_ERROR)
  /\ UNCHANGED <<session_messages, trimVars, pagVars, capVars, extVars, selVars, uiVars>>
  /\ UNCHANGED <<selected_model, llm, turns, trimmed_messages, counter_failed,
                 user_query,
                 tool_selection, matched_tools, tool_response, calls, escaped>>

\* a generic path that adds its message to the thread and then hands it
\* to the interpretation step
GenericResponseCommitsEarly(completion) ==
  /\ pc = "GENERIC_RESPONSE"
  /\ thread' = Append(thread, AIMessage(completion.content, completion.tokens))
  /\ pc' = "SYNTHESIZING"
  /\ UNCHANGED <<session_messages, trimVars, pagVars, capVars, extVars, selVars, uiVars>>
  /\ UNCHANGED <<selected_model, llm, turns, trimmed_messages, counter_failed,
                 user_query, tool_selection, matched_tools, tool_response,
                 calls, caught, escaped, returned>>

\* _default_response (lines 277-285): the generic completion returns
GenericResponse(completion) ==
  /\ pc = "GENERIC_RESPONSE"
  /\ Commit(completion)
  /\ UNCHANGED <<session_messages, trimVars, pagVars, capVars, extVars, selVars, uiVars>>
  /\ UNCHANGED <<selected_model, llm, turns, trimmed_messages, counter_failed,
                 user_query,
                 tool_selection, matched_tools, tool_response, calls, caught,
                 escaped>>

\* chatbot_agent lines 219, 221-223: the generic completion raises
GenericResponseRaises ==
  /\ pc = "GENERIC_RESPONSE"
  /\ caught' = "completion"
  /\ Commit(UNEXPECTED_ERROR)
  /\ UNCHANGED <<session_messages, trimVars, pagVars, capVars, extVars, selVars, uiVars>>
  /\ UNCHANGED <<selected_model, llm, turns, trimmed_messages, counter_failed,
                 user_query,
                 tool_selection, matched_tools, tool_response, calls, escaped>>

\* handle_chat_input has shown the reply; the next input is awaited
NextTurn ==
  /\ pc = "DONE"
  /\ pc' = "AWAITING_INPUT"
  /\ trimmed_messages' = <<>>
  /\ counter_failed' = FALSE
  /\ user_query' = ""
  /\ tool_selection' = ""
  /\ matched_tools' = <<>>
  /\ tool_response' = NoResponse
  /\ calls' = <<>>
  /\ caught' = "none"
  /\ escaped' = "none"
  /\ returned' = ""
  /\ session_messages' =
       Append(session_messages, [role |-> "assistant", content |-> returned])
  /\ UNCHANGED <<trimVars, pagVars, capVars, extVars, selVars, uiVars>>
  /\ UNCHANGED <<selected_model, llm, thread, turns>>

Next ==
  \/ \E input \in UserInputs : InteractNoModel(input)
  \/ \E input \in UserInputs, settings \in GenerationSettings,
          counter_raises \in BOOLEAN :
       Interact(input, settings, counter_raises)
  \/ \E selection \in ClassifierResponses : SelectTool(selection)
  \/ SelectToolRaises
  \/ \E api_ok \in BOOLEAN : ExecuteTool(api_ok)
  \/ \E narrative \in Narratives : Synthesize(narrative)
  \/ SynthesizeRaises
  \/ \E completion \in Completions : GenericResponse(completion)
  \/ GenericResponseRaises
  \/ NextTurn

\* handle_chat_input has shown the reply and the script has ended; the next
\* run of main builds a new ZabbixAssistant, whose workflow has a
\* MemorySaver of its own, and awaits the next input
Rerun ==
  /\ pc = "DONE"
  /\ pc' = "AWAITING_INPUT"
  /\ llm' = _initialize_llm(selected_model)
  /\ thread' = <<>>
  /\ trimmed_messages' = <<>>
  /\ counter_failed' = FALSE
  /\ user_query' = ""
  /\ tool_selection' = ""
  /\ matched_tools' = <<>>
  /\ tool_response' = NoResponse
  /\ calls' = <<>>
  /\ caught' = "none"
  /\ escaped' = "none"
  /\ returned' = ""
  /\ session_messages' =
       Append(session_messages, [role |-> "assistant", content |-> returned])
  /\ UNCHANGED <<trimVars, pagVars, capVars, extVars, selVars, uiVars>>
  /\ UNCHANGED <<selected_model, turns>>

\* the turns of the Streamlit application: main runs once for every input
AppNext ==
  \/ \E input \in UserInputs : InteractNoModel(input)
  \/ \E input \in UserInputs, settings \in GenerationSettings,
          counter_raises \in BOOLEAN :
       Interact(input, settings, counter_raises)
  \/ \E selection \in ClassifierResponses : SelectTool(selection)
  \/ SelectToolRaises
  \/ \E api_ok \in BOOLEAN : ExecuteTool(api_ok)
  \/ \E narrative \in Narratives : Synthesize(narrative)
  \/ SynthesizeRaises
  \/ \E completion \in Completions : GenericResponse(completion)
  \/ GenericResponseRaises
  \/ Rerun

\* the message a new chat starts with
GREETING == [role |-> "assistant", content |-> "Hello! How can I help you today?"]

\* render_sidebar lines 66-72, "Create New Chat": the session shows a new
\* chat; the assistant and its thread "zabbix_assistant_thread" are not
\* touched
NewChat ==
  /\ pc = "AWAITING_INPUT"
  /\ session_messages' = <<GREETING>>
  /\ UNCHANGED <<selected_model, llm, thread, pc, turns, trimmed_messages,
                 counter_failed, user_query, tool_selection, matched_tools,
                 tool_response, calls, caught, escaped, returned>>
  /\ UNCHANGED <<trimVars, pagVars, capVars, extVars, selVars, uiVars>>

\* several chats handled one after the other by one ZabbixAssistant
ChatNext ==
  \/ \E input \in UserInputs : InteractNoModel(input)
  \/ \E input \in UserInputs, settings \in GenerationSettings,
          counter_raises \in BOOLEAN :
       Interact(input, settings, counter_raises)
  \/ \E selection \in ClassifierResponses : SelectTool(selection)
  \/ SelectToolRaises
  \/ \E api_ok \in BOOLEAN : ExecuteTool(api_ok)
  \/ \E narrative \in Narratives : Synthesize(narrative)
  \/ SynthesizeRaises
  \/ \E completion \in Completions : GenericResponse(completion)
  \/ GenericResponseRaises
  \/ NextTurn
  \/ NewChat

\* ------------------------------------------------------------------------
\* _trim_conversation_messages as a function of its arguments
\* ------------------------------------------------------------------------
NoResult == [raised |-> "none", content |-> <<>>, total_items |-> 0,
             total_pages |-> 0, current_page |-> 0, page_size |-> 0]

TrimIdle ==
  /\ conv = <<>>
  /\ counter_raises_in = FALSE
  /\ trim_result = <<>>
  /\ trim_pc = "idle"

PagIdle ==
  /\ data = <<>>
  /\ page = 1
  /\ page_size = 1
  /\ pag_result = NoResult
  /\ pag_pc = "idle"

\* texts of the user that differ in their token count
TrimInputs == {u \in UserInputs : u.content # "list hosts"}

\* messages a thread can hold
HumanMessages == {HumanMessage(u.content, u.tokens) : u \in TrimInputs}

AIMessages ==
  {AIMessage(a.content, a.tokens) :
     a \in {UNEXPECTED_ERROR,
            [content |-> "All monitored hosts are healthy.", tokens |-> 250]}}

\* state["messages"] as chatbot_agent receives it: it ends with the new
\* user message, and every assistant message is the reply of the turn that
\* the user message before it started (a turn whose exception left
\* chatbot_agent has no reply)
WellFormed(messages) ==
  /\ messages[Len(messages)].role = "human"
  /\ \A i \in 1..Len(messages) :
       messages[i].role = "ai" => (i > 1 /\ messages[i - 1].role = "human")

TrimInit ==
  /\ \E n \in 1..MaxConv :
       /\ conv \in [1..n -> HumanMessages \cup AIMessages]
       /\ WellFormed(conv)
  /\ counter_raises_in \in BOOLEAN
  /\ trim_result = <<>>
  /\ trim_pc = "ready"

\* _trim_conversation_messages(conv) is called
Trim ==
  /\ trim_pc = "ready"
  /\ trim_result' = _trim_conversation_messages(conv, counter_raises_in)
  /\ trim_pc' = "done"
  /\ UNCHANGED <<conv, counter_raises_in, turnVars, pagVars, capVars, extVars, selVars, uiVars>>

\* ------------------------------------------------------------------------
\* paginate_response as a function of its arguments
\* ------------------------------------------------------------------------
\* record lists r1..rn
RecordLists == {[i \in 1..n |-> i] : n \in 0..MaxRecords}

PagInit ==
  /\ data \in RecordLists
  /\ page \in (0 - MaxPageArg)..MaxPageArg
  /\ page_size \in (0 - MaxPageArg)..MaxPageArg
  /\ pag_result = NoResult
  /\ pag_pc = "ready"

\* paginate_response(data, page, page_size) is called
Paginate ==
  /\ pag_pc = "ready"
  /\ pag_result' = paginate_response(data, page, page_size)
  /\ pag_pc' = "done"
  /\ UNCHANGED <<data, page, page_size, turnVars, trimVars, capVars, extVars, selVars, uiVars>>

\* ------------------------------------------------------------------------
\* The call of a capability as a function of its arguments
\* ------------------------------------------------------------------------
NoText == [raised |-> FALSE, text |-> <<>>]

ApiDown == [ok |-> FALSE, records |-> <<>>]

CapIdle ==
  /\ cap_tool = 1
  /\ cap_limit = None
  /\ cap_severity = None
  /\ cap_api = ApiDown
  /\ cap_result = NoText
  /\ cap_pc = "idle"

ExtIdle ==
  /\ ext_query = <<>>
  /\ ext_limit = None
  /\ ext_severity = None
  /\ ext_priority = None
  /\ ext_pc = "idle"

\* limit arguments _extract_limit can give
Limits == {None} \cup {<<n>> : n \in 0..MaxLimit}

\* severity arguments _extract_severity can give
Severities ==
  {None} \cup {<<s>> : s \in {"not_classified", "information", "warning",
                               "average", "high", "disaster"}}

\* outcomes of the monitoring API call: an exception, or records
ApiOutcomes ==
  {ApiDown} \cup {[ok |-> TRUE, records |-> r] : r \in RecordLists}

\* tools _run_tool calls with arguments taken from the query
parameter_tools == {"get_hosts", "get_triggers"}

CapInit ==
  /\ cap_tool \in 1..Len(tools)
  /\ cap_limit \in
       IF tools[cap_tool].func \in parameter_tools THEN Limits ELSE {None}
  /\ cap_severity \in
       IF tools[cap_tool].func = "get_triggers" THEN Severities ELSE {None}
  /\ cap_api \in ApiOutcomes
  /\ cap_result = NoText
  /\ cap_pc = "ready"

\* _run_tool calls the wrapper of the tool
CallCapability ==
  /\ cap_pc = "ready"
  /\ cap_result' = wrapper(tools[cap_tool].func, cap_limit, cap_severity,
                           cap_api)
  /\ cap_pc' = "done"
  /\ UNCHANGED <<cap_tool, cap_limit, cap_severity, cap_api, turnVars,
                 trimVars, pagVars, extVars, selVars, uiVars>>

\* ------------------------------------------------------------------------
\* The parameter extraction as a function of the query text
\* ------------------------------------------------------------------------
\* pieces the query texts are put together from
QueryPieces ==
  {<<"5">>, <<"0">>, <<" ">>, <<"x">>,
   <<"h","o","s","t","s">>, <<"T","r","i","g","g","e","r">>,
   <<"h","i","g","h">>, <<"D","i","s","a","s","t","e","r">>,
   <<"n","o","t"," ","c","l","a","s","s","i","f","i","e","d">>}

\* query texts quoted by the documentation
ExampleQueries ==
  {Text["show me 5 triggers with high severity"], Text["list hosts"],
   Text["disaster triggers"]}

RECURSIVE Flatten(_)
Flatten(pieces) ==
  IF pieces = <<>> THEN <<>> ELSE Head(pieces) \o Flatten(Tail(pieces))

ExtInit ==
  /\ \/ \E n \in 1..MaxPieces :
          \E pieces \in [1..n -> QueryPieces] : ext_query = Flatten(pieces)
     \/ ext_query \in ExampleQueries
  /\ ext_limit = None
  /\ ext_severity = None
  /\ ext_priority = None
  /\ ext_pc = "ready"

\* _extract_limit(query) and _extract_severity(query) are called
Extract ==
  /\ ext_pc = "ready"
  /\ ext_limit' = _extract_limit(ext_query)
  /\ ext_severity' = _extract_severity(ext_query)
  /\ ext_pc' = "done"
  /\ UNCHANGED <<ext_query, ext_priority, turnVars, trimVars, pagVars,
                 capVars, selVars, uiVars>>

\* ZabbixToolFunctions.get_triggers lines 137-148 for the extracted
\* severity as severity_filter
BuildTriggerFilter ==
  /\ ext_pc = "done"
  /\ ext_priority' = priority_filter(ext_severity)
  /\ ext_pc' = "filtered"
  /\ UNCHANGED <<ext_query, ext_limit, ext_severity, turnVars, trimVars,
                 pagVars, capVars, selVars, uiVars>>

ExtractNext ==
  \/ Extract
  \/ BuildTriggerFilter

\* ------------------------------------------------------------------------
\* The chat list of the Streamlit session
\* ------------------------------------------------------------------------
\* chats in the stored history when the session starts
MaxChats == 3

\* messages sent in one session
MaxSends == 2

UiIdle ==
  /\ history_file = <<>>
  /\ history = <<>>
  /\ current_chat_index = 0 - 1
  /\ ui_messages = <<>>
  /\ shown_chat = 0
  /\ aliased = FALSE
  /\ sends = 0
  /\ ui_raised = "none"
  /\ ui_pc = "idle"

\* {"role": "user", "content": prompt}
PROMPT == [role |-> "user", content |-> "list hosts"]

\* texts interact returns to handle_chat_input
UiResponses == {"All monitored hosts are healthy."}

\* a chat of the stored history; chat tells the chats apart, the file has
\* no such column
StoredChat(k, timestamp) ==
  [chat |-> k, timestamp |-> timestamp,
   messages |-> <<PROMPT, [role |-> "assistant",
                           content |-> "All monitored hosts are healthy."]>>]

\* load_chat_history: the rows of the file in any order of their timestamps
StoredHistories ==
  UNION {
    {[k \in 1..n |-> StoredChat(k, order[k])] :
       order \in {f \in [1..n -> 1..n] :
                    \A a, b \in 1..n : f[a] = f[b] => a = b}} :
    n \in 0..MaxChats}

\* del chats[k + 1]
Remove(chats, k) ==
  SubSeq(chats, 1, k - 1) \o SubSeq(chats, k + 1, Len(chats))

\* sorted(chats, key=timestamp, reverse=True)
RECURSIVE sorted_by_timestamp(_)
sorted_by_timestamp(chats) ==
  IF chats = <<>> THEN <<>>
  ELSE
    LET newest == CHOOSE k \in 1..Len(chats) :
                    /\ \A j \in 1..Len(chats) :
                         chats[j].timestamp <= chats[k].timestamp
                    /\ \A j \in 1..(k - 1) :
                         chats[j].timestamp < chats[k].timestamp
    IN  <<chats[newest]>> \o sorted_by_timestamp(Remove(chats, newest))

\* the session before the script has run: no key is in st.session_state
UiInit ==
  /\ history_file \in StoredHistories
  /\ history = <<>>
  /\ current_chat_index = 0 - 1
  /\ ui_messages = <<>>
  /\ shown_chat = 0
  /\ aliased = FALSE
  /\ sends = 0
  /\ ui_raised = "none"
  /\ ui_pc = "start"

\* initialize_session_state in the first run of the script
initialize_session_state ==
  /\ ui_pc = "start"
  /\ history' = sorted_by_timestamp(history_file)
  /\ current_chat_index' = 0
  /\ IF history' # <<>>
     THEN /\ ui_messages' = history'[1].messages
          /\ shown_chat' = history'[1].chat
          /\ aliased' = TRUE
     ELSE /\ ui_messages' = <<>>
          /\ shown_chat' = 0
          /\ aliased' = FALSE
  /\ ui_raised' = "none"
  /\ ui_pc' = "ready"
  /\ UNCHANGED <<history_file, sends, turnVars, trimVars, pagVars, capVars,
                 extVars, selVars>>

\* the history after st.session_state.messages.append: a chat whose list
\* object the session shows gets the messages too
appended_in_place(msgs) ==
  IF aliased
  THEN [k \in 1..Len(history) |->
          IF history[k].chat = shown_chat
          THEN [history[k] EXCEPT !.messages = msgs]
          ELSE history[k]]
  ELSE history

\* handle_chat_input lines 75-99 for a prompt: both messages are appended,
\* then the chat is inserted at the front (current_chat_index == -1) or
\* written to history[current_chat_index], which raises IndexError for an
\* index outside the list, and the history is saved
handle_chat_input(response) ==
  /\ ui_pc = "ready"
  /\ sends < MaxSends
  /\ sends' = sends + 1
  /\ LET msgs == ui_messages \o
                   <<PROMPT, [role |-> "assistant", content |-> response]>>
         chats == appended_in_place(msgs)
         timestamp == MaxChats + sends'
     IN  /\ ui_messages' = msgs
         /\ IF current_chat_index = 0 - 1
            THEN /\ history' = <<[chat |-> MaxChats + sends',
                                  timestamp |-> timestamp,
                                  messages |-> msgs]>> \o chats
                 /\ current_chat_index' = 0
                 /\ shown_chat' = MaxChats + sends'
                 /\ aliased' = FALSE
                 /\ history_file' = history'
                 /\ ui_raised' = "none"
            ELSE IF current_chat_index \in 0..(Len(chats) - 1)
            THEN /\ history' =
                      [chats EXCEPT
                         ![current_chat_index + 1].messages = msgs,
                         ![current_chat_index + 1].timestamp = timestamp]
                 /\ aliased' =
                      (aliased
                         /\ chats[current_chat_index + 1].chat # shown_chat)
                 /\ history_file' = history'
                 /\ ui_raised' = "none"
                 /\ UNCHANGED <<current_chat_index, shown_chat>>
            ELSE /\ history' = chats
                 /\ ui_raised' = "IndexError"
                 /\ UNCHANGED <<current_chat_index, shown_chat, aliased,
                                history_file>>
  /\ UNCHANGED <<ui_pc, turnVars, trimVars, pagVars, capVars, extVars,
                 selVars>>

\* render_sidebar lines 66-72, "Create New Chat"
create_new_chat ==
  /\ ui_pc = "ready"
  /\ ui_messages' = <<GREETING>>
  /\ current_chat_index' = 0 - 1
  /\ shown_chat' = 0
  /\ aliased' = FALSE
  /\ ui_raised' = "none"
  /\ UNCHANGED <<history_file, history, sends, ui_pc, turnVars, trimVars,
                 pagVars, capVars, extVars, selVars>>

\* render_sidebar lines 74-80, "Clear Chat History": current_chat_index is
\* not assigned
clear_chat_history ==
  /\ ui_pc = "ready"
  /\ history' = <<>>
  /\ ui_messages' = <<GREETING>>
  /\ history_file' = <<>>
  /\ shown_chat' = 0
  /\ aliased' = FALSE
  /\ ui_raised' = "none"
  /\ UNCHANGED <<current_chat_index, sends, ui_pc, turnVars, trimVars,
                 pagVars, capVars, extVars, selVars>>

\* render_chat_history lines 52-55: the chat at chat_index is opened
open_chat(chat_index) ==
  /\ ui_pc = "ready"
  /\ ui_messages' = history[chat_index + 1].messages
  /\ current_chat_index' = chat_index
  /\ shown_chat' = history[chat_index + 1].chat
  /\ aliased' = TRUE
  /\ ui_raised' = "none"
  /\ UNCHANGED <<history_file, history, sends, ui_pc, turnVars, trimVars,
                 pagVars, capVars, extVars, selVars>>

\* render_chat_history lines 65-68: the chat at chat_index is deleted;
\* messages and current_chat_index are not assigned
delete_chat(chat_index) ==
  /\ ui_pc = "ready"
  /\ history' = Remove(history, chat_index + 1)
  /\ history_file' = history'
  /\ ui_raised' = "none"
  /\ UNCHANGED <<current_chat_index, ui_messages, shown_chat, aliased, sends,
                 ui_pc, turnVars, trimVars, pagVars, capVars, extVars,
                 selVars>>

\* one run of the script for one input of the user
UiNext ==
  \/ initialize_session_state
  \/ \E response \in UiResponses : handle_chat_input(response)
  \/ create_new_chat
  \/ clear_chat_history
  \/ \E chat_index \in 0..(Len(history) - 1) : open_chat(chat_index)
  \/ \E chat_index \in 0..(Len(history) - 1) : delete_chat(chat_index)

\* ------------------------------------------------------------------------
\* The selection of a capability as a function of the classifier response
\* ------------------------------------------------------------------------
SelIdle ==
  /\ sel_named = 1
  /\ sel_response = <<>>
  /\ sel_matched = <<>>
  /\ sel_func = ""
  /\ sel_pc = "idle"

\* ways a classifier response names a capability
ResponseForms == {"exact", "lower", "sentence"}

\* the response that names catalog entry i
Response(i, form) ==
  CASE form = "exact" -> tools[i].name
    [] form = "lower" -> lower(tools[i].name)
    [] form = "sentence" ->
         tools[i].name \o <<" ","i","s"," ","t","h","e"," ","t","o","o","l">>

SelInit ==
  /\ sel_named \in 1..Len(tools)
  /\ \E form \in ResponseForms : sel_response = Response(sel_named, form)
  /\ sel_matched = <<>>
  /\ sel_func = ""
  /\ sel_pc = "ready"

\* the function _run_tool invokes for a list of matches: that of
\* matched_tools[0]
bound_func(matched) == IF matched = <<>> THEN "" ELSE tools[matched[1]].func

\* chatbot_agent lines 175-178: _match_tools, then _run_tool on the first
\* match
SelectCapability ==
  /\ sel_pc = "ready"
  /\ sel_matched' = match_from(1, sel_response)
  /\ sel_func' = bound_func(sel_matched')
  /\ sel_pc' = "done"
  /\ UNCHANGED <<sel_named, sel_response, turnVars, trimVars, pagVars,
                 capVars, extVars, uiVars>>

\* ------------------------------------------------------------------------
\* Specifications
\* ------------------------------------------------------------------------
Init == TurnInit /\ TrimIdle /\ PagIdle /\ CapIdle /\ ExtIdle
  /\ SelIdle /\ UiIdle

\* successive calls of interact on one ZabbixAssistant
Spec == Init /\ [][Next]_vars

\* the Streamlit application
AppSpec == Init /\ [][AppNext]_vars

\* chats that follow one another on one ZabbixAssistant
ChatSpec == Init /\ [][ChatNext]_vars

\* the steps of a running turn that end without waiting for the monitoring
\* API: a call of the language model returns or raises, and a wrapper that
\* raises does so before any request is sent. The request of a capability
\* to the monitoring API (ZabbixAPI is built without a timeout) is not among
\* them.
TurnProgress ==
  /\ WF_vars((\E selection \in ClassifierResponses : SelectTool(selection))
               \/ SelectToolRaises)
  /\ WF_vars((\E narrative \in Narratives : Synthesize(narrative))
               \/ SynthesizeRaises)
  /\ WF_vars((\E completion \in Completions : GenericResponse(completion))
               \/ GenericResponseRaises)
  /\ WF_vars(/\ pc = "EXECUTING_TOOL"
             /\ WrapperRaises(tools[matched_tools[1]].func)
             /\ \E api_ok \in BOOLEAN : ExecuteTool(api_ok))

\* successive calls of interact, with the progress the code ensures
LiveSpec == Init /\ [][Next]_vars /\ TurnProgress

TrimSpecInit == TurnInit /\ TrimInit /\ PagIdle /\ CapIdle /\ ExtIdle
  /\ SelIdle /\ UiIdle

TrimSpec == TrimSpecInit /\ [][Trim]_vars

PagSpecInit == TurnInit /\ TrimIdle /\ PagInit /\ CapIdle /\ ExtIdle
  /\ SelIdle /\ UiIdle

PagSpec == PagSpecInit /\ [][Paginate]_vars

CapSpecInit == TurnInit /\ TrimIdle /\ PagIdle /\ CapInit /\ ExtIdle
  /\ SelIdle /\ UiIdle

CapSpec == CapSpecInit /\ [][CallCapability]_vars

ExtractSpecInit == TurnInit /\ TrimIdle /\ PagIdle /\ CapIdle /\ ExtInit
  /\ SelIdle /\ UiIdle

ExtractSpec == ExtractSpecInit /\ [][ExtractNext]_vars

SelectSpecInit == TurnInit /\ TrimIdle /\ PagIdle /\ CapIdle /\ ExtIdle
  /\ SelInit /\ UiIdle

SelectSpec == SelectSpecInit /\ [][SelectCapability]_vars

UiSpecInit == TurnInit /\ TrimIdle /\ PagIdle /\ CapIdle /\ ExtIdle
  /\ SelIdle /\ UiInit

\* the chat list over the script runs of one browser session
UiSpec == UiSpecInit /\ [][UiNext]_vars

\* ------------------------------------------------------------------------
\* Properties
\* ------------------------------------------------------------------------
Last(s) == s[Len(s)]

Min(a, b) == IF a < b THEN a ELSE b

\* the texts of the model that contain "Error retrieving"
ContainsErrorRetrieving ==
  [t \in DOMAIN Text |-> IsSubstring(Text["Error retrieving"], Text[t])]

\* the catalog indices whose name occurs, ignoring case, in each text
MatchingNames ==
  [t \in DOMAIN Text |->
     {i \in 1..Len(tools) : IsSubstring(lower(tools[i].name), lower(Text[t]))}]

\* C1: in every turn in which the invoked capability fails (its wrapper
\* raises, or the monitoring API call inside it raises), the turn ends with
\* exactly one assistant message on the thread, and that message contains
\* "Error retrieving".
C1_FailedCapabilityReportsErrorRetrieving ==
  (pc = "DONE" /\ calls # <<>>
     /\ (tool_response.raised \/ tool_response.kind = "error_text"))
  => /\ thread # <<>>
     /\ Last(thread).role = "ai"
     /\ ContainsErrorRetrieving[Last(thread).content]

\* C2: no exception leaves the turn: a finished turn has no escaped
\* exception, interact has returned a text, and a failure caught inside the
\* turn has become the single assistant message reporting the unexpected
\* error, which interact returns.
C2_NoExceptionEscapesTheTurn ==
  pc = "DONE"
  => /\ escaped = "none"
     /\ returned # ""
     /\ caught # "none"
          => /\ thread # <<>>
             /\ Last(thread) = AIMessage(UNEXPECTED_ERROR.content,
                                         UNEXPECTED_ERROR.tokens)
             /\ returned = UNEXPECTED_ERROR.content

\* C3: once the classifier has answered, the capability names occurring in
\* the answer (case-insensitively, as substrings) decide the path: if there
\* are any, the turn executes the match that comes first in the catalog,
\* otherwise it takes the generic path; the capability invoked is that match.
C3_FirstMatchInRegistryOrder ==
  tool_selection # ""
  => LET M == MatchingNames[tool_selection]
         first == CHOOSE i \in M : \A j \in M : i <= j
     IN  /\ M # {} => pc # "GENERIC_RESPONSE"
         /\ M = {} => (pc # "EXECUTING_TOOL" /\ calls = <<>>)
         /\ pc = "EXECUTING_TOOL" => matched_tools[1] = first
         /\ calls # <<>> => (M # {} /\ calls[1] = first)

C3_Witness ==
  /\ pc = "SYNTHESIZING"
  /\ Cardinality(MatchingNames[tool_selection]) > 1
  /\ tool_selection = "Get Items or Get Hosts"
  /\ calls = <<1>>

\* C4: at most one capability is invoked in a turn, however many names
\* matched, and none is invoked on the generic path.
C4_AtMostOneCapabilityPerTurn ==
  /\ Len(calls) <= 1
  /\ (tool_selection # "" /\ matched_tools = <<>>) => calls = <<>>

C4_Witness ==
  /\ pc = "DONE"
  /\ Len(matched_tools) > 1
  /\ Len(calls) = 1

\* C5: the window returned by _trim_conversation_messages ends with the most
\* recent user message whenever the conversation has one, and starts with
\* the system message when the conversation starts with one.
C5_WindowKeepsLatestUserMessage ==
  trim_pc = "done"
  => LET humans == {i \in 1..Len(conv) : conv[i].role = "human"}
         latest == CHOOSE i \in humans : \A j \in humans : j <= i
     IN  /\ humans # {}
           => (trim_result # <<>> /\ Last(trim_result) = conv[latest])
         /\ (conv # <<>> /\ conv[1].role = "system")
           => (trim_result # <<>> /\ trim_result[1] = conv[1])

\* C6 (as claimed): every window handed to the tool selection or to the
\* generic completion counts at most max_tokens tokens, on the trimming
\* path and on the fallback path alike.
C6_WindowWithinBudgetOnBothPaths ==
  pc \in {"SELECTING_TOOL", "GENERIC_RESPONSE"}
  => token_counter(trimmed_messages) <= max_tokens

\* C6 (amended): every window handed to the tool selection or to the
\* generic completion in a turn whose token counter did not raise counts at
\* most max_tokens tokens.
C6_WindowWithinBudgetWhenCounted ==
  (pc \in {"SELECTING_TOOL", "GENERIC_RESPONSE"} /\ ~counter_failed)
  => token_counter(trimmed_messages) <= max_tokens

C6_Witness ==
  /\ pc = "GENERIC_RESPONSE"
  /\ ~counter_failed
  /\ Len(trimmed_messages) < Len(thread)
  /\ token_counter(thread) > max_tokens

\* C7: when the token counter raises, _trim_conversation_messages returns
\* the last 5 messages of the conversation (all of them when there are
\* fewer), in their original order.
C7_FallbackReturnsLastFive ==
  (trim_pc = "done" /\ counter_raises_in)
  => /\ Len(trim_result) = Min(5, Len(conv))
     /\ \A i \in 1..Len(trim_result) :
          trim_result[i] = conv[Len(conv) - Len(trim_result) + i]

C7_Witness ==
  /\ trim_pc = "done"
  /\ counter_raises_in
  /\ Len(conv) > 5
  /\ Len(trim_result) = 5

\* ceil(n / p) for p >= 1
Ceil(n, p) == CHOOSE k \in 0..n : k * p >= n /\ (k - 1) * p < n

\* the items of pages 1..k, one page after the other
RECURSIVE Pages(_, _, _)
Pages(records, size, k) ==
  IF k = 0 THEN <<>>
  ELSE Pages(records, size, k - 1)
       \o paginate_response(records, k, size).content

\* C8: for a page size p >= 1 and n records, total_pages is ceil(n / p) and
\* pages 1..total_pages hold every record exactly once, in the original
\* order (so their item counts sum to n).
C8_PagesPartitionTheRecords ==
  (pag_pc = "done" /\ page_size >= 1)
  => /\ pag_result.raised = "none"
     /\ pag_result.total_pages = Ceil(Len(data), page_size)
     /\ Pages(data, page_size, pag_result.total_pages) = data

C8_Witness ==
  /\ pag_pc = "done"
  /\ page_size >= 2
  /\ Len(data) > page_size
  /\ Len(data) % page_size # 0
  /\ pag_result.total_pages = 2

\* C9: for a page size p >= 1, a page number beyond total_pages gives an
\* empty item set and no error.
C9_PageBeyondLastIsEmpty ==
  (pag_pc = "done" /\ page_size >= 1 /\ page > pag_result.total_pages)
  => /\ pag_result.raised = "none"
     /\ pag_result.content = <<>>

C9_Witness ==
  /\ pag_pc = "done"
  /\ page_size >= 1
  /\ Len(data) > 0
  /\ page = pag_result.total_pages + 1
  /\ pag_result.content = <<>>

\* C10: a page size of 0 or less is treated as 1: the call does not raise
\* and returns what paginate_response returns for page_size = 1, with
\* total_pages equal to the number of records.
C10_NonPositivePageSizeClampedToOne ==
  (pag_pc = "done" /\ page_size <= 0)
  => /\ pag_result.raised = "none"
     /\ pag_result.total_pages = Len(data)
     /\ pag_result.content = paginate_response(data, page, 1).content

\* text ends with the pieces of suffix
EndsWith(text, suffix) ==
  /\ Len(text) >= Len(suffix)
  /\ SubSeq(text, Len(text) - Len(suffix) + 1, Len(text)) = suffix

\* C11: every text a capability returns on success ends with the footer
\* "Page X of Y (Total Items: Z)", X the requested page (the wrappers ask
\* for page 1), Y the number of pages and Z the number of records retrieved
C11_SuccessEndsWithFooter ==
  (cap_pc = "done" /\ cap_api.ok /\ ~cap_result.raised) =>
    \E y \in 0..Len(cap_api.records) :
      EndsWith(cap_result.text,
               <<"\n\nPage ", ToString(1), " of ", ToString(y),
                 " (Total Items: ", ToString(Len(cap_api.records)), ")">>)

\* maximal runs of digits of q, as <<first, last>>
DigitRuns(q) ==
  {r \in (1..Len(q)) \X (1..Len(q)) :
     /\ r[1] <= r[2]
     /\ \A x \in r[1]..r[2] : q[x] \in Digits
     /\ r[1] = 1 \/ q[r[1] - 1] \notin Digits
     /\ r[2] = Len(q) \/ q[r[2] + 1] \notin Digits}

NounForms ==
  {<<"h","o","s","t">>, <<"h","o","s","t","s">>,
   <<"t","r","i","g","g","e","r">>, <<"t","r","i","g","g","e","r","s">>,
   <<"i","t","e","m">>, <<"i","t","e","m","s">>}

\* after position b come whitespace characters, if any, and then a noun
FollowedByNoun(q, b) ==
  \E k \in (b + 1)..Len(q) :
    /\ \A x \in (b + 1)..(k - 1) : q[x] \in Whitespace
    /\ \E w \in NounForms : StartsWith(q, k, w)

\* digit runs of q that stand before a noun
LimitRuns(q) == {r \in DigitRuns(q) : FollowedByNoun(q, r[2])}

Occurs(k, query) == IsSubstring(severity_map[k].severity, lower(query))

\* C13: _extract_severity gives a list of one element, the name of the
\* first entry of the vocabulary (not classified, information, warning,
\* average, high, disaster; in this order) that occurs in the query,
\* letter case ignored and wherever the entries stand in the query, and
\* None when no entry occurs. The name of an entry is the entry itself,
\* but for "not classified", which is named "not_classified".
C13_SeverityIsFirstVocabularyEntry ==
  ext_pc = "done" =>
    IF \A k \in 1..Len(severity_map) : ~Occurs(k, ext_query)
    THEN ext_severity = None
    ELSE \E k \in 1..Len(severity_map) :
           /\ Occurs(k, ext_query)
           /\ \A m \in 1..(k - 1) : ~Occurs(m, ext_query)
           /\ ext_severity = <<severity_map[k].mapped_severity>>

\* "high" was extracted from a query in which "disaster" stands before it
C13_Witness ==
  /\ ext_pc = "done"
  /\ ext_severity = <<"high">>
  /\ Occurs(6, ext_query)
  /\ FirstOccurrence(lower(ext_query), severity_map[6].severity)
       < FirstOccurrence(lower(ext_query), severity_map[5].severity)

\* C14: a turn whose tool selection call failed has invoked no capability
\* and its reply is a generic completion
C14_SelectionFailureDegradesToGeneral ==
  (pc = "DONE" /\ caught = "selection") =>
    /\ calls = <<>>
    /\ Last(thread).role = "ai"
    /\ Last(thread).content \in {c.content : c \in Completions}

\* C15: a turn whose interpretation call failed after the capability ran
\* is finished, nothing has left the turn, its assistant message is the
\* fixed apology that follows the user message of the turn, interact
\* returns it, and the next turn can start on this thread
C15_SynthesisFailureGivesApology ==
  (caught = "synthesis") =>
    /\ pc = "DONE"
    /\ escaped = "none"
    /\ calls # <<>>
    /\ Len(thread) >= 2
    /\ Last(thread) = AIMessage(UNEXPECTED_ERROR.content,
                                UNEXPECTED_ERROR.tokens)
    /\ thread[Len(thread) - 1].role = "human"
    /\ returned = UNEXPECTED_ERROR.content
    /\ ENABLED NextTurn

\* the interpretation call has failed in the second turn of a thread
C15_Witness ==
  /\ caught = "synthesis"
  /\ turns = 2
  /\ tool_response.kind = "data"

\* position of a state in the order of a turn
Stage(state) ==
  CASE state = "AWAITING_INPUT" -> 1
    [] state = "SELECTING_TOOL" -> 2
    [] state \in {"EXECUTING_TOOL", "GENERIC_RESPONSE"} -> 3
    [] state = "SYNTHESIZING" -> 4
    [] state = "DONE" -> 5

\* a step runs no capability before the tool selection has returned, starts
\* no interpretation before the capability has returned, and adds an
\* assistant message to the thread only on reaching DONE
StepKeepsTheOrder ==
  /\ calls' # calls /\ calls' # <<>>
       => pc = "EXECUTING_TOOL" /\ tool_selection # ""
  /\ pc' = "SYNTHESIZING" /\ pc # "SYNTHESIZING"
       => /\ pc = "EXECUTING_TOOL"
          /\ tool_response'.kind # "none"
          /\ ~tool_response'.raised
  /\ Len(thread') > Len(thread) /\ Last(thread').role = "ai"
       => pc # "DONE" /\ pc' = "DONE"

\* C16 as stated: every step of a turn goes from a state to the one that
\* follows it in AWAITING_INPUT, SELECTING_TOOL, EXECUTING_TOOL or
\* GENERIC_RESPONSE, SYNTHESIZING, DONE
C16_EveryTurnPassesEveryState ==
  [][/\ pc' # pc => \/ pc = "DONE" /\ pc' = "AWAITING_INPUT"
                    \/ Stage(pc') = Stage(pc) + 1
     /\ StepKeepsTheOrder]_vars

\* C16: the states of a turn occur in the order AWAITING_INPUT,
\* SELECTING_TOOL, EXECUTING_TOOL or GENERIC_RESPONSE, SYNTHESIZING, DONE,
\* of which a turn may leave some out; no capability runs before the tool
\* selection has returned, no interpretation starts before the capability
\* has returned, and the assistant message is added to the thread only on
\* reaching DONE
C16_TurnKeepsTheOrder ==
  [][/\ pc' # pc => \/ pc = "DONE" /\ pc' = "AWAITING_INPUT"
                    \/ Stage(pc') > Stage(pc)
     /\ StepKeepsTheOrder]_vars

\* the third turn of a thread has run a capability and committed its
\* narrative
C16_Witness ==
  /\ pc = "DONE"
  /\ turns = 3
  /\ caught = "none"
  /\ calls # <<>>
  /\ tool_selection # ""
  /\ Last(thread).content \in {n.content : n \in Narratives}

\* the thread as handle_chat_input would record it
AsSessionMessages(messages) ==
  [i \in 1..Len(messages) |->
     [role    |-> IF messages[i].role = "human" THEN "user" ELSE "assistant",
      content |-> messages[i].content]]

\* C17: when a turn of the application starts, the thread the orchestrator
\* reads holds the user and assistant messages of the earlier turns of the
\* conversation, in their order, followed by the new user message
C17_ThreadHoldsEarlierTurns ==
  pc = "SELECTING_TOOL" => AsSessionMessages(thread) = session_messages

\* C18: no two capabilities of the catalog have the same name: a tool
\* that has been called is the only entry of the catalog with its name
C18_CapabilityNamesAreUnique ==
  cap_pc = "done" =>
    \A j \in 1..Len(tools) :
      tools[j].name = tools[cap_tool].name => j = cap_tool

\* C19: the turn for "disaster triggers" that the classifier answers with
\* "Get Triggers" extracts the severity list ["disaster"], gets a text from
\* the capability and ends in DONE; when the text is the page of triggers
\* and the interpretation call returns, its narrative is the last message
\* of the thread
C19_DisasterTriggersEndToEnd ==
  (pc = "DONE" /\ user_query = "disaster triggers"
     /\ tool_selection = "Get Triggers") =>
    /\ _extract_severity(Text[user_query]) = <<"disaster">>
    /\ calls = <<4>>
    /\ ~tool_response.raised
    /\ (tool_response.kind = "data" /\ caught = "none")
         => Last(thread).content \in {n.content : n \in Narratives}

\* C20: a turn that has started reaches DONE, also when a call of a
\* capability to the monitoring API or a call of the language model does
\* not return
C20_EveryTurnReachesDone ==
  (pc \in {"SELECTING_TOOL", "EXECUTING_TOOL", "GENERIC_RESPONSE",
           "SYNTHESIZING"}) ~> (pc = "DONE")

\* C21: a call of a capability that fails, because the monitoring API
\* fails or because the arguments of the call are wrong, does not raise and
\* returns the text "Error retrieving <subject>: <cause>"
C21_FailureReturnsErrorTextWithCause ==
  (cap_pc = "done"
     /\ (~cap_api.ok \/ WrapperRaises(tools[cap_tool].func))) =>
    /\ ~cap_result.raised
    /\ Len(cap_result.text) = 4
    /\ cap_result.text[1] = "Error retrieving "
    /\ cap_result.text[3] = ": "
    /\ cap_result.text[4] = "cause"

\* C22: when a turn handled with a selected model is over, the thread holds
\* two messages for every turn so far, the user message of the turn followed
\* by one assistant message, and interact has returned the content of that
\* assistant message
C22_TurnAddsUserAndAssistantMessage ==
  (pc = "DONE" /\ selected_model # "None") =>
    /\ Len(thread) = 2 * turns
    /\ thread[Len(thread) - 1].role = "human"
    /\ thread[Len(thread) - 1].content = user_query
    /\ Last(thread).role = "ai"
    /\ returned = Last(thread).content

C24_PageOutOfRangeIsEmpty ==
  (pag_pc = "done" /\ page_size >= 1
     /\ (page < 1 \/ page > pag_result.total_pages)) =>
    /\ pag_result.raised = "none"
    /\ pag_result.content = <<>>

\* the messages of a list that are not system messages, in their order
NonSystem(messages) == SelectSeq(messages, LAMBDA m : m.role # "system")

\* C25: the budget-aware window drops messages from the oldest end only: its
\* non-system messages are a contiguous suffix of the conversation's
\* non-system messages, in the same order, each message whole (content and
\* token count unchanged).
C25_WindowIsSuffixOfConversation ==
  (trim_pc = "done" /\ ~counter_raises_in) =>
    LET window == NonSystem(trim_result)
        all    == NonSystem(conv)
    IN  /\ Len(window) <= Len(all)
        /\ window = SubSeq(all, Len(all) - Len(window) + 1, Len(all))

C25_Witness ==
  /\ trim_pc = "done"
  /\ ~counter_raises_in
  /\ Len(trim_result) >= 2
  /\ Len(trim_result) < Len(conv)
  /\ trim_result[1] # conv[1]

\* C26: a classifier response equal to the exact name of a capability of
\* the catalog selects that capability, and the function invoked is the one
\* bound to it
C26_ExactNameSelectsTheCapability ==
  (sel_pc = "done" /\ sel_response = tools[sel_named].name) =>
    /\ sel_matched # <<>>
    /\ sel_matched[1] = sel_named
    /\ sel_func = tools[sel_named].func

\* C27: once the session is initialised, current_chat_index is -1 or the
\* index of the chat the session shows, and no write of a turn to
\* history[current_chat_index] has failed
C27_CurrentChatIndexIsValid ==
  ui_pc = "ready" =>
    /\ \/ current_chat_index = 0 - 1
       \/ /\ current_chat_index \in 0..(Len(history) - 1)
          /\ history[current_chat_index + 1].chat = shown_chat
    /\ ui_raised = "none"

\* C28: a call of "Get Hosts" gives paginate_response a page size of at
\* least 1: the extracted limit N >= 1, and 50 when no limit was extracted
\* or the limit is 0; with the monitoring API answering, the text is page 1
\* of the hosts for that page size, and no division fails
C28_GetHostsPageSizeIsPositive ==
  (cap_pc = "done" /\ tools[cap_tool].func = "get_hosts" /\ cap_api.ok) =>
    LET n    == Len(cap_api.records)
        size == IF cap_limit = None \/ cap_limit[1] = 0
                THEN 50 ELSE cap_limit[1]
    IN  /\ size >= 1
        /\ ~cap_result.raised
        /\ cap_result.text =
             formatter(SubSeq(cap_api.records, 1, Min(n, size)), "\n\n")
               \o <<"\n\nPage ", ToString(1), " of ", ToString(Ceil(n, size)),
                    " (Total Items: ", ToString(n), ")">>

C28_Witness ==
  /\ cap_pc = "done"
  /\ tools[cap_tool].func = "get_hosts"
  /\ cap_api.ok
  /\ cap_limit = <<0>>
  /\ Len(cap_api.records) >= 2
  /\ cap_result.text[Len(cap_result.text) - 3] = ToString(1)

\* C29: a severity _extract_severity returns is a key of the severity map
\* of get_triggers and is translated to the priority equal to the position
\* (0..5) of its word in the vocabulary not classified, information,
\* warning, average, high, disaster; the filter holds no untranslated name
C29_ExtractedSeverityIsTranslated ==
  (ext_pc = "filtered" /\ ext_severity # None) =>
    /\ Len(ext_priority) = Len(ext_severity)
    /\ \A i \in 1..Len(ext_severity) :
         /\ ext_severity[i] \in DOMAIN trigger_severity_map
         /\ ext_priority[i].kind = "int"
         /\ \E k \in 1..Len(severity_map) :
              /\ severity_map[k].mapped_severity = ext_severity[i]
              /\ ext_priority[i].value = k - 1

C29_Witness ==
  /\ ext_pc = "filtered"
  /\ ext_severity = <<"not_classified">>
  /\ ext_priority = <<[kind |-> "int", value |-> 0]>>

\* C30: a call of interact with no model selected returns "No model
\* selected. Please choose a model." and ends the turn at once: the thread
\* and the settings of the language model (model name, temperature, top_p,
\* max_tokens) stay as they were, no language-model step is entered and no
\* capability is called
C30_NoModelTurnChangesNothing ==
  [][(pc = "AWAITING_INPUT" /\ selected_model = "None"
        /\ turns' = turns + 1) =>
       /\ returned' = "No model selected. Please choose a model."
       /\ pc' = "DONE"
       /\ thread' = thread
       /\ llm' = llm
       /\ calls' = calls
       /\ tool_selection' = tool_selection
       /\ tool_response' = tool_response]_vars

C30_Witness ==
  /\ pc = "DONE"
  /\ selected_model = "None"
  /\ turns = 2
  /\ returned = "No model selected. Please choose a model."
  /\ thread = <<>>
  /\ calls = <<>>

====
